---- MODULE Spec2Model ----
(***************************************************************************)
(* Variant resolution (orchestrator/experiment_config.py) and the          *)
(* experiment execution driver (orchestrator/run_experiment.py).           *)
(*                                                                         *)
(* Three specifications share the module:                                  *)
(*   SpecMerge  merge_variant_configs applied to two bounded configs       *)
(*   Spec       load_variant as a call-stack machine over a small          *)
(*              directory of variant files                                 *)
(*   SpecRun    run_experiments / run_experiment over a small dataset      *)
(***************************************************************************)
EXTENDS Integers, Sequences, FiniteSets, TLC

VARIABLES
    \* merge_variant_configs(vc1, vc2)
    vc1, vc2, merged, mpc,
    \* load_variant(variant_path, exp_evaluators)
    files, variant_path, exp_evaluators, stack, pc, result, error, trace,
    \* run_experiments(config_filepath, variants, data_path, run_id,
    \*                 output_dir, is_eval_data)
    args, data, experiments, run_id, rpc, e, i, results, all_results,
    calls, writes, returned

mergeVars == <<vc1, vc2, merged, mpc>>
loadVars == <<files, variant_path, exp_evaluators, stack, pc, result, error, trace>>
runVars == <<args, data, experiments, run_id, rpc, e, i, results, all_results,
             calls, writes, returned>>
vars == <<vc1, vc2, merged, mpc,
          files, variant_path, exp_evaluators, stack, pc, result, error, trace,
          args, data, experiments, run_id, rpc, e, i, results, all_results,
          calls, writes, returned>>

(***************************************************************************)
(* Values of a YAML document.  A mapping keyed by strings is a function;   *)
(* a value stored under a key is tagged: scalar, list or nested mapping.   *)
(***************************************************************************)
None == "None"

Scalar(n) == [t |-> "s", v |-> n]

List(s) == [t |-> "l", v |-> s]

Map(f) == [t |-> "m", v |-> f]

EmptyDict == <<>>

One(k, val) == [x \in {k} |-> val]

Two(k1, val1, k2, val2) == [x \in {k1, k2} |-> IF x = k1 THEN val1 ELSE val2]

(***************************************************************************)
(* orchestrator.utils.merge_dicts: deep merge, the second argument wins.   *)
(***************************************************************************)
RECURSIVE merge_dicts(_, _)
merge_dicts(d1, d2) ==
    [k \in (DOMAIN d1) \cup (DOMAIN d2) |->
        IF k \notin DOMAIN d2 THEN d1[k]
        ELSE IF k \notin DOMAIN d1 THEN d2[k]
        ELSE IF d1[k].t = "m" /\ d2[k].t = "m"
             THEN Map(merge_dicts(d1[k].v, d2[k].v))
             ELSE d2[k]]

(***************************************************************************)
(* orchestrator.evaluation_config.merge_eval_config_maps: per evaluator    *)
(* name, the deep merge of the two load configurations; a name in one map  *)
(* only passes through.                                                    *)
(***************************************************************************)
merge_eval_config_maps(map1, map2) ==
    [k \in (DOMAIN map1) \cup (DOMAIN map2) |->
        IF k \notin DOMAIN map2 THEN map1[k]
        ELSE IF k \notin DOMAIN map1 THEN map2[k]
        ELSE Map(merge_dicts(map1[k].v, map2[k].v))]

(***************************************************************************)
(* EvaluationConfig and dataclasses.asdict on it.                          *)
(***************************************************************************)
EvaluationConfig(evaluation_data) ==
    [evaluators |-> IF "evaluators" \in DOMAIN evaluation_data
                    THEN evaluation_data["evaluators"].v ELSE EmptyDict]

asdict(evaluation) == One("evaluators", Map(evaluation.evaluators))

(***************************************************************************)
(* The VariantConfig dataclass: absent fields take the declared defaults.  *)
(***************************************************************************)
VariantConfig(nm, parents, iargs, cargs, ev, p, oc) ==
    [name |-> nm, parent_variants |-> parents, init_args |-> iargs,
     call_args |-> cargs, evaluation |-> ev, path |-> p,
     output_container |-> oc]

DefaultVariant ==
    VariantConfig(None, <<>>, EmptyDict, EmptyDict,
                  EvaluationConfig(EmptyDict), None, None)

\* the base's name and output_container kept whenever the base sets them
merge_variant_configs_base_first(a, b) ==
    LET merged_eval == merge_dicts(asdict(a.evaluation), asdict(b.evaluation))
    IN  [name |-> IF a.name # None THEN a.name ELSE b.name,
         output_container |->
             IF a.output_container # None
             THEN a.output_container ELSE b.output_container,
         parent_variants |->
             IF b.parent_variants = <<>> /\ a.parent_variants # <<>>
             THEN a.parent_variants ELSE b.parent_variants,
         init_args |-> merge_dicts(a.init_args, b.init_args),
         call_args |-> merge_dicts(a.call_args, b.call_args),
         evaluation |-> EvaluationConfig(merged_eval),
         path |-> b.path]

\* the override's evaluation kept whole instead of merged
merge_variant_configs_eval_replaced(a, b) ==
    [name |-> IF b.name = None /\ a.name # None THEN a.name ELSE b.name,
     output_container |->
         IF b.output_container = None /\ a.output_container # None
         THEN a.output_container ELSE b.output_container,
     parent_variants |->
         IF b.parent_variants = <<>> /\ a.parent_variants # <<>>
         THEN a.parent_variants ELSE b.parent_variants,
     init_args |-> merge_dicts(a.init_args, b.init_args),
     call_args |-> merge_dicts(a.call_args, b.call_args),
     evaluation |-> b.evaluation,
     path |-> b.path]

\* call_args merged with the arguments the wrong way round
merge_variant_configs_call_args_swapped(a, b) ==
    LET merged_eval == merge_dicts(asdict(a.evaluation), asdict(b.evaluation))
    IN  [name |-> IF b.name = None /\ a.name # None THEN a.name ELSE b.name,
         output_container |->
             IF b.output_container = None /\ a.output_container # None
             THEN a.output_container ELSE b.output_container,
         parent_variants |->
             IF b.parent_variants = <<>> /\ a.parent_variants # <<>>
             THEN a.parent_variants ELSE b.parent_variants,
         init_args |-> merge_dicts(a.init_args, b.init_args),
         call_args |-> merge_dicts(b.call_args, a.call_args),
         evaluation |-> EvaluationConfig(merged_eval),
         path |-> b.path]

(***************************************************************************)
(* merge_variant_configs(vc1, vc2): a copy of vc2 with vc1 underneath.     *)
(***************************************************************************)
merge_variant_configs(a, b) ==
    LET merged_eval == merge_dicts(asdict(a.evaluation), asdict(b.evaluation))
    IN  [name |-> IF b.name = None /\ a.name # None THEN a.name ELSE b.name,
         output_container |->
             IF b.output_container = None /\ a.output_container # None
             THEN a.output_container ELSE b.output_container,
         parent_variants |->
             IF b.parent_variants = <<>> /\ a.parent_variants # <<>>
             THEN a.parent_variants ELSE b.parent_variants,
         init_args |-> merge_dicts(a.init_args, b.init_args),
         call_args |-> merge_dicts(a.call_args, b.call_args),
         evaluation |-> EvaluationConfig(merged_eval),
         path |-> b.path]

(***************************************************************************)
(* Bounds of the checked instances.                                        *)
(***************************************************************************)
\* longest parent_variants list a variant file declares
MaxParents == 2

\* depth of nested load() calls at which the interpreter gives up
MaxDepth == 4

\* the variant files of one variants directory
Files == {"A", "B", "C"}

\* a value only file f writes, so that a resolved value names its origin
Id(f) == CASE f = "A" -> 1 [] f = "B" -> 2 [] OTHER -> 3

Container(f) == CASE f = "A" -> "outA" [] f = "B" -> "outB" [] OTHER -> "outC"

\* the setting the experiment-level evaluator defaults carry; no file
\* writes the value 0
DefaultSetting == Scalar(0)

\* the sequences over S of length at most n that list no element twice
SeqsNoRepeat(S, n) ==
    { s \in UNION { [1..len -> S] : len \in 0..n } :
        \A j, k \in 1..Len(s) : j # k => s[j] # s[k] }

ParentLists == SeqsNoRepeat(Files, MaxParents)

\* init_args / call_args a file may hold, written with value v
ArgShapes(v) ==
    { EmptyDict,
      One("x", Scalar(v)),
      One("x", List(<<v>>)),
      One("x", Map(One("p", Scalar(v)))),
      Two("x", Map(One("q", Scalar(v))), "z", Scalar(v)),
      One("x", Map(One("p", Map(One("r", Scalar(v)))))) }

\* the raw `evaluation` block a file may hold, written with value v
EvalShapes(v) ==
    { EmptyDict,
      One("evaluators", Map(One("e", Map(One("k", Scalar(v)))))),
      One("evaluators", Map(Two("e", Map(One("j", Scalar(v))),
                                "g", Map(One("k", Scalar(v)))))) }

(***************************************************************************)
(* The parts of the state a specification does not use stay as they are.   *)
(***************************************************************************)
MergeIdle ==
    /\ vc1 = DefaultVariant
    /\ vc2 = DefaultVariant
    /\ merged = DefaultVariant
    /\ mpc = "unused"

RunIdle ==
    /\ args = [run_id |-> None, output_dir |-> None, is_eval_data |-> FALSE]
    /\ data = [readable |-> FALSE, lines |-> <<>>]
    /\ experiments = <<>>
    /\ run_id = None
    /\ rpc = "unused"
    /\ e = 0
    /\ i = 0
    /\ results = <<>>
    /\ all_results = <<>>
    /\ calls = <<>>
    /\ writes = <<>>
    /\ returned = [results |-> <<>>, run_id |-> None]

(***************************************************************************)
(* Spec: load_variant(variant_path, exp_evaluators).                       *)
(*                                                                         *)
(* files[f] is what load_file(f) yields: kind "missing" (load_file         *)
(* raises), "notdict" (a document that is no mapping) or "dict" with the   *)
(* document's fields.  All files sit in one directory, so                  *)
(* path.parent.joinpath(p) is the file named p.                            *)
(***************************************************************************)
Document(kind, nm, parents, iargs, cargs, ev, oc) ==
    [kind |-> kind, name |-> nm, parent_variants |-> parents,
     init_args |-> iargs, call_args |-> cargs, evaluation |-> ev,
     output_container |-> oc]

Missing == Document("missing", None, <<>>, EmptyDict, EmptyDict, EmptyDict, None)

NotDict == Document("notdict", None, <<>>, EmptyDict, EmptyDict, EmptyDict, None)

\* what a variant file written by f may set besides name and parents:
\* nothing; scalars; nested mappings; a second key and a list
ContentShapes(f) ==
    LET v == Id(f)
    IN  { [init_args |-> EmptyDict, call_args |-> EmptyDict,
           evaluation |-> EmptyDict, output_container |-> None],
          [init_args |-> One("x", Scalar(v)),
           call_args |-> One("y", Map(One("p", Scalar(v)))),
           evaluation |-> One("evaluators",
                              Map(One("e", Map(One("k", Scalar(v)))))),
           output_container |-> Container(f)],
          [init_args |-> One("x", Map(One("p", Scalar(v)))),
           call_args |-> One("y", Scalar(v)),
           evaluation |-> One("evaluators",
                              Map(Two("e", Map(One("j", Scalar(v))),
                                      "g", Map(One("k", Scalar(v)))))),
           output_container |-> None],
          [init_args |-> Two("x", Map(One("q", Scalar(v))), "z", Scalar(v)),
           call_args |-> One("y", Map(One("q", List(<<v>>)))),
           evaluation |-> One("evaluators", Map(EmptyDict)),
           output_container |-> Container(f)] }

Documents(f, parents, shapes) ==
    { Document("dict", nm, parents, c.init_args, c.call_args, c.evaluation,
               c.output_container) :
        nm \in {None, f}, c \in shapes }

\* the experiment's `evaluators` handed to load_variant, or None
ExpEvaluators ==
    { [isNone |-> TRUE, map |-> EmptyDict],
      [isNone |-> FALSE,
       map |-> Two("e", Map(Two("k", DefaultSetting, "j", DefaultSetting)),
                   "h", Map(One("k", DefaultSetting)))] }

ParentsOf(fs, f) ==
    { fs[f].parent_variants[n] : n \in 1..Len(fs[f].parent_variants) }

\* the files load() can reach from the files of frontier
RECURSIVE ReachFrom(_, _, _)
ReachFrom(fs, seen, frontier) ==
    IF frontier \subseteq seen THEN seen
    ELSE ReachFrom(fs, seen \cup frontier,
                   UNION { ParentsOf(fs, f) : f \in frontier \ seen })

Reach(fs, f) == ReachFrom(fs, {}, {f})

\* a file reachable from f is its own ancestor
CycleReachable(fs, f) ==
    \E g \in Reach(fs, f) :
        g \in ReachFrom(fs, {}, ParentsOf(fs, g))

FileSystem(a, b, c) ==
    [f \in Files |-> CASE f = "A" -> a [] f = "B" -> b [] OTHER -> c]

\* which files exist, which are mappings, and their parent_variants
Skeletons ==
    [Files -> {Missing, NotDict} \cup
              { Document("dict", None, ps, EmptyDict, EmptyDict, EmptyDict, None) :
                  ps \in ParentLists }]

\* files the request cannot reach play no part: they are left out
Relevant(sk, f) == \A g \in Files \ Reach(sk, f) : sk[g] = Missing

\* the documents file f may hold in a directory of skeleton sk:
\* when every file is a mapping and the inheritance is acyclic, any of
\* ContentShapes; otherwise the scalar shape alone
FileContents(sk, rich, f) ==
    IF sk[f].kind # "dict" THEN {sk[f]}
    ELSE Documents(f, sk[f].parent_variants,
                   IF rich THEN ContentShapes(f)
                   ELSE { c \in ContentShapes(f) : "e" \in DOMAIN
                            EvaluationConfig(c.evaluation).evaluators
                            /\ c.output_container # None })

InitFiles ==
    \E sk \in Skeletons :
        /\ Relevant(sk, variant_path)
        /\ LET rich == /\ \A g \in Reach(sk, variant_path) : sk[g].kind = "dict"
                       /\ ~CycleReachable(sk, variant_path)
           IN  \E a \in FileContents(sk, rich, "A"),
                  b \in FileContents(sk, rich, "B"),
                  c \in FileContents(sk, rich, "C") :
                   files = FileSystem(a, b, c)

LoadIdle ==
    /\ files = [f \in Files |-> Missing]
    /\ variant_path = None
    /\ exp_evaluators = [isNone |-> TRUE, map |-> EmptyDict]
    /\ stack = <<>>
    /\ pc = "unused"
    /\ result = DefaultVariant
    /\ error = None
    /\ trace = <<>>

Init ==
    /\ variant_path \in Files
    /\ exp_evaluators \in ExpEvaluators
    /\ InitFiles
    /\ stack = <<>>
    /\ pc = "idle"
    /\ result = DefaultVariant
    /\ error = None
    /\ trace = <<>>
    /\ MergeIdle
    /\ RunIdle

Frame(path, check_has_name, variant) ==
    [path |-> path, check_has_name |-> check_has_name, variant |-> variant,
     parents |-> variant.parent_variants, i |-> 1]

\* lines 95-98: the VariantConfig built from the loaded document
Construct(doc) ==
    VariantConfig(doc.name, doc.parent_variants, doc.init_args, doc.call_args,
                  EvaluationConfig(doc.evaluation), variant_path,
                  doc.output_container)

\* lines 103-105: the experiment's evaluators go under the variant's own
WithExpEvaluators(variant) ==
    IF ~exp_evaluators.isNone
    THEN [variant EXCEPT !.evaluation.evaluators =
              merge_eval_config_maps(exp_evaluators.map, @)]
    ELSE variant

FileError == "FileNotFoundError"

InvalidError == "ValueError: Invalid variant configuration"

NameError == "ValueError: A loaded variant must have a name"

RecursionError == "RecursionError"

Raise(kind) ==
    /\ stack' = <<>>
    /\ pc' = "raised"
    /\ error' = kind
    /\ UNCHANGED result

\* the call load(path, check_has_name) up to the loop over parent_variants
load(path, check_has_name) ==
    IF Len(stack) >= MaxDepth
    THEN Raise(RecursionError) /\ UNCHANGED trace
    ELSE /\ trace' = Append(trace, path)
         /\ IF files[path].kind = "missing"
            THEN Raise(FileError)
            ELSE IF files[path].kind # "dict"
            THEN Raise(InvalidError)
            ELSE IF check_has_name /\ Construct(files[path]).name = None
            THEN Raise(NameError)
            ELSE /\ stack' = Append(stack,
                        Frame(path, check_has_name,
                              WithExpEvaluators(Construct(files[path]))))
                 /\ pc' = "running"
                 /\ UNCHANGED <<result, error>>

\* load_variant: return load(variant_path, check_has_name=True)
LoadVariant ==
    /\ pc = "idle"
    /\ load(variant_path, TRUE)
    /\ UNCHANGED <<files, variant_path, exp_evaluators>>
    /\ UNCHANGED mergeVars
    /\ UNCHANGED runVars

Top == stack[Len(stack)]

\* the recursive call made with the name check switched on
LoadParentChecked ==
    /\ pc = "running"
    /\ Top.i <= Len(Top.parents)
    /\ load(Top.parents[Top.i], TRUE)
    /\ UNCHANGED <<files, variant_path, exp_evaluators>>
    /\ UNCHANGED mergeVars
    /\ UNCHANGED runVars

\* line 111: additional_config = load(config_path)
LoadParent ==
    /\ pc = "running"
    /\ Top.i <= Len(Top.parents)
    /\ load(Top.parents[Top.i], FALSE)
    /\ UNCHANGED <<files, variant_path, exp_evaluators>>
    /\ UNCHANGED mergeVars
    /\ UNCHANGED runVars

\* the parent merged on top of the child
ReturnParentOnTop ==
    /\ pc = "running"
    /\ Top.i > Len(Top.parents)
    /\ IF Len(stack) = 1
       THEN /\ result' = Top.variant
            /\ pc' = "returned"
            /\ stack' = <<>>
       ELSE LET caller == stack[Len(stack) - 1]
            IN  /\ stack' = [SubSeq(stack, 1, Len(stack) - 1)
                                EXCEPT ![Len(stack) - 1] =
                                    [caller EXCEPT
                                        !.variant = merge_variant_configs(
                                                        @, Top.variant),
                                        !.i = @ + 1]]
                /\ UNCHANGED <<result, pc>>
    /\ UNCHANGED <<files, variant_path, exp_evaluators, error, trace>>
    /\ UNCHANGED mergeVars
    /\ UNCHANGED runVars

\* the caller merges the parent but its loop does not move on
ReturnNoAdvance ==
    /\ pc = "running"
    /\ Top.i > Len(Top.parents)
    /\ IF Len(stack) = 1
       THEN /\ result' = Top.variant
            /\ pc' = "returned"
            /\ stack' = <<>>
       ELSE LET caller == stack[Len(stack) - 1]
            IN  /\ stack' = [SubSeq(stack, 1, Len(stack) - 1)
                                EXCEPT ![Len(stack) - 1] =
                                    [caller EXCEPT
                                        !.variant = merge_variant_configs(
                                                        Top.variant, @)]]
                /\ UNCHANGED <<result, pc>>
    /\ UNCHANGED <<files, variant_path, exp_evaluators, error, trace>>
    /\ UNCHANGED mergeVars
    /\ UNCHANGED runVars

\* line 114 in the callee, then line 112 in the caller (or line 116)
Return ==
    /\ pc = "running"
    /\ Top.i > Len(Top.parents)
    /\ IF Len(stack) = 1
       THEN /\ result' = Top.variant
            /\ pc' = "returned"
            /\ stack' = <<>>
       ELSE LET caller == stack[Len(stack) - 1]
            IN  /\ stack' = [SubSeq(stack, 1, Len(stack) - 1)
                                EXCEPT ![Len(stack) - 1] =
                                    [caller EXCEPT
                                        !.variant = merge_variant_configs(
                                                        Top.variant, @),
                                        !.i = @ + 1]]
                /\ UNCHANGED <<result, pc>>
    /\ UNCHANGED <<files, variant_path, exp_evaluators, error, trace>>
    /\ UNCHANGED mergeVars
    /\ UNCHANGED runVars

Next == LoadVariant \/ LoadParent \/ Return

Spec == Init /\ [][Next]_vars

(***************************************************************************)
(* SpecMerge: merge_variant_configs on two configs.                        *)
(***************************************************************************)
MergeInputs(f) ==
    { VariantConfig(nm, ps, ia, ca, EvaluationConfig(ev), None, oc) :
        nm \in {None, f},
        ps \in {<<>>, <<f>>},
        ia \in ArgShapes(Id(f)),
        ca \in {EmptyDict, One("x", List(<<Id(f), Id(f)>>))},
        ev \in EvalShapes(Id(f)),
        oc \in {None, Container(f)} }

InitMerge ==
    /\ vc1 \in MergeInputs("A")
    /\ vc2 \in MergeInputs("B")
    /\ merged = DefaultVariant
    /\ mpc = "call"
    /\ LoadIdle
    /\ RunIdle

Merge ==
    /\ mpc = "call"
    /\ merged' = merge_variant_configs(vc1, vc2)
    /\ mpc' = "done"
    /\ UNCHANGED <<vc1, vc2>>
    /\ UNCHANGED loadVars
    /\ UNCHANGED runVars

NextMerge == Merge

SpecMerge == InitMerge /\ [][NextMerge]_vars

(***************************************************************************)
(* SpecRun: run_experiments and, per experiment, run_experiment.           *)
(*                                                                         *)
(* The collaborators are outside the driver: load_experiments yields the   *)
(* experiments, here numbered in the order loaded, or raises;              *)
(* load_jsonl_file yields the file's lines or raises; experiment.run       *)
(* returns some result or raises; experiment.write_results returns or      *)
(* raises.  calls and writes log what the driver asked of the experiment.  *)
(***************************************************************************)
\* most records in the data file
MaxRecords == 2

\* most variants requested in one batch
MaxExperiments == 2

Records == {"r1", "r2"}

Outputs == {"o1", "o2"}

Raised == "raised"

SeqsUpTo(S, n) == UNION { [1..m -> S] : m \in 0..n }

InitRun ==
    /\ args \in [run_id : {None, "given"}, output_dir : {None, "out"},
                 is_eval_data : BOOLEAN]
    /\ data \in [readable : BOOLEAN, lines : SeqsUpTo(Records, MaxRecords)]
    /\ ~data.readable => data.lines = <<>>
    /\ experiments \in { [k \in 1..n |-> k] : n \in 0..MaxExperiments }
    /\ run_id = None
    /\ rpc = "start"
    /\ e = 0
    /\ i = 0
    /\ results = <<>>
    /\ all_results = <<>>
    /\ calls = <<>>
    /\ writes = <<>>
    /\ returned = [results |-> <<>>, run_id |-> None]
    /\ MergeIdle
    /\ LoadIdle

\* a new run id generated even when one was supplied
RunExperimentsFreshId ==
    /\ rpc = "start"
    /\ run_id' = "generated"
    /\ \E loaded \in BOOLEAN :
          rpc' = IF loaded THEN "experiments" ELSE Raised
    /\ e' = 1
    /\ UNCHANGED <<args, data, experiments, i, results, all_results, calls,
                   writes, returned>>
    /\ UNCHANGED mergeVars
    /\ UNCHANGED loadVars

\* lines 80-87: the run id, then load_experiments
RunExperiments ==
    /\ rpc = "start"
    /\ run_id' = IF args.run_id = None THEN "generated" ELSE args.run_id
    /\ \E loaded \in BOOLEAN :
          rpc' = IF loaded THEN "experiments" ELSE Raised
    /\ e' = 1
    /\ UNCHANGED <<args, data, experiments, i, results, all_results, calls,
                   writes, returned>>
    /\ UNCHANGED mergeVars
    /\ UNCHANGED loadVars

\* lines 90-91 and 40-41: the next experiment's run_experiment begins
RunExperiment ==
    /\ rpc = "experiments"
    /\ e <= Len(experiments)
    /\ results' = <<>>
    /\ i' = 0
    /\ rpc' = IF data.readable THEN "records" ELSE Raised
    /\ UNCHANGED <<args, data, experiments, run_id, e, all_results, calls,
                   writes, returned>>
    /\ UNCHANGED mergeVars
    /\ UNCHANGED loadVars

\* the result put in front of the list instead of appended
RunRecordPrepends ==
    /\ rpc = "records"
    /\ i < Len(data.lines)
    /\ \E out \in Outputs \cup {Raised} :
          /\ calls' = Append(calls, [experiment |-> e, line_number |-> i,
                                     data_line |-> data.lines[i + 1],
                                     out |-> out])
          /\ IF out = Raised
             THEN /\ rpc' = Raised
                  /\ UNCHANGED <<results, i>>
             ELSE /\ results' = <<out>> \o results
                  /\ i' = i + 1
                  /\ UNCHANGED rpc
    /\ UNCHANGED <<args, data, experiments, run_id, e, all_results, writes,
                   returned>>
    /\ UNCHANGED mergeVars
    /\ UNCHANGED loadVars

\* lines 43-45: one record
RunRecord ==
    /\ rpc = "records"
    /\ i < Len(data.lines)
    /\ \E out \in Outputs \cup {Raised} :
          /\ calls' = Append(calls, [experiment |-> e, line_number |-> i,
                                     data_line |-> data.lines[i + 1],
                                     out |-> out])
          /\ IF out = Raised
             THEN /\ rpc' = Raised
                  /\ UNCHANGED <<results, i>>
             ELSE /\ results' = Append(results, out)
                  /\ i' = i + 1
                  /\ UNCHANGED rpc
    /\ UNCHANGED <<args, data, experiments, run_id, e, all_results, writes,
                   returned>>
    /\ UNCHANGED mergeVars
    /\ UNCHANGED loadVars

\* write_results called whether or not output_dir was given
FinishExperimentAlwaysWrites ==
    /\ rpc = "records"
    /\ i >= Len(data.lines)
    /\ \E written \in BOOLEAN :
          /\ writes' = Append(writes,
                 [experiment |-> e, output_dir |-> args.output_dir,
                  results |-> results,
                  is_eval_data |-> args.is_eval_data,
                  written |-> written,
                  calls_before |-> Len(calls)])
          /\ IF written
             THEN /\ all_results' = Append(all_results, results)
                  /\ e' = e + 1
                  /\ rpc' = "experiments"
             ELSE /\ rpc' = Raised
                  /\ UNCHANGED <<all_results, e>>
    /\ UNCHANGED <<args, data, experiments, run_id, i, results, calls,
                   returned>>
    /\ UNCHANGED mergeVars
    /\ UNCHANGED loadVars

\* lines 47-50 and 97: write_results when asked for, return, append
FinishExperiment ==
    /\ rpc = "records"
    /\ i >= Len(data.lines)
    /\ IF args.output_dir # None
       THEN \E written \in BOOLEAN :
               /\ writes' = Append(writes,
                      [experiment |-> e, output_dir |-> args.output_dir,
                       results |-> results,
                       is_eval_data |-> args.is_eval_data,
                       written |-> written,
                       calls_before |-> Len(calls)])
               /\ IF written
                  THEN /\ all_results' = Append(all_results, results)
                       /\ e' = e + 1
                       /\ rpc' = "experiments"
                  ELSE /\ rpc' = Raised
                       /\ UNCHANGED <<all_results, e>>
       ELSE /\ all_results' = Append(all_results, results)
            /\ e' = e + 1
            /\ rpc' = "experiments"
            /\ UNCHANGED writes
    /\ UNCHANGED <<args, data, experiments, run_id, i, results, calls,
                   returned>>
    /\ UNCHANGED mergeVars
    /\ UNCHANGED loadVars

\* line 99
ReturnResults ==
    /\ rpc = "experiments"
    /\ e > Len(experiments)
    /\ returned' = [results |-> all_results, run_id |-> run_id]
    /\ rpc' = "returned"
    /\ UNCHANGED <<args, data, experiments, run_id, e, i, results,
                   all_results, calls, writes>>
    /\ UNCHANGED mergeVars
    /\ UNCHANGED loadVars

NextRun ==
    \/ RunExperiments
    \/ RunExperiment
    \/ RunRecord
    \/ FinishExperiment
    \/ ReturnResults

SpecRun == InitRun /\ [][NextRun]_vars

(***************************************************************************)
(* Properties of load_variant, checked under Spec.                         *)
(***************************************************************************)
requested == files[variant_path]

\* C1: load_variant raises "A loaded variant must have a name" when the
\* requested file is a mapping without a name, before any parent is loaded
\* and whatever its parents declare; a name error is raised only by that
\* first load, never by a file loaded through parent_variants.
C1_NameRequiredOnRequestedOnly ==
    /\ (pc # "idle" /\ requested.kind = "dict" /\ requested.name = None)
         => (pc = "raised" /\ error = NameError /\ trace = <<variant_path>>)
    /\ error = NameError
         => (requested.name = None /\ trace = <<variant_path>>)
    /\ \A k \in 2..Len(trace) :
          (files[trace[k]].kind = "dict" /\ files[trace[k]].name = None)
             => (Len(trace) > k \/ pc = "running" \/ pc = "returned"
                 \/ error = RecursionError)

\* a nameless request whose parent is named is refused
C1_Witness ==
    /\ pc = "raised"
    /\ error = NameError
    /\ \E p \in ParentsOf(files, variant_path) :
          files[p].kind = "dict" /\ files[p].name # None

\* the order in which an error-free resolution of f loads files: f, then
\* each parent's own resolution, in list order
RECURSIVE Preorder(_, _)
RECURSIVE PreorderAll(_, _)
Preorder(fs, f) == <<f>> \o PreorderAll(fs, fs[f].parent_variants)

PreorderAll(fs, ps) ==
    IF ps = <<>> THEN <<>>
    ELSE Preorder(fs, Head(ps)) \o PreorderAll(fs, Tail(ps))

\* the number of files on the longest parent chain starting at f
RECURSIVE LongestChain(_, _)
LongestChain(fs, f) ==
    LET below == { LongestChain(fs, p) : p \in ParentsOf(fs, f) }
    IN  1 + (IF below = {} THEN 0
             ELSE CHOOSE n \in below : \A m \in below : m <= n)

IsPrefix(s, t) == Len(s) <= Len(t) /\ s = SubSeq(t, 1, Len(s))

Terminated == pc \in {"returned", "raised"}

AcyclicResolution ==
    ~CycleReachable(files, variant_path) =>
        /\ error # RecursionError
        /\ Len(stack) <= LongestChain(files, variant_path)
        /\ IsPrefix(trace, Preorder(files, variant_path))
        /\ pc = "returned" => trace = Preorder(files, variant_path)
        /\ pc = "raised" => error \in {NameError, InvalidError, FileError}

\* C10 as amended: resolution never stalls; over an acyclic graph it loads
\* every declared parent occurrence once, in depth-first order, nests no
\* deeper than the longest parent chain, and ends by returning or with a
\* configuration/file error; when a cycle is reachable it never returns a
\* variant, and it ends either with an error raised before the cycle
\* closes (a nameless request, a missing file, a file that is no mapping)
\* or at the recursion limit.
C10_TerminatesOnAcyclicOnly ==
    /\ Terminated \/ ENABLED Next
    /\ AcyclicResolution
    /\ CycleReachable(files, variant_path) =>
        /\ pc # "returned"
        /\ pc = "raised" =>
            \/ error = RecursionError
            \/ error = NameError /\ requested.name = None
                                 /\ trace = <<variant_path>>
            \/ error = FileError
                 /\ files[trace[Len(trace)]].kind = "missing"
            \/ error = InvalidError
                 /\ files[trace[Len(trace)]].kind = "notdict"

\* a variant that inherits from itself through another file ends at the
\* recursion limit
C10_Witness ==
    /\ CycleReachable(files, variant_path)
    /\ variant_path \notin ParentsOf(files, variant_path)
    /\ pc = "raised"
    /\ error = RecursionError

\* C10 as claimed: as above, but with a reachable cycle neither a variant
\* nor a configuration error is ever produced.
C10_Original ==
    /\ Terminated \/ ENABLED Next
    /\ AcyclicResolution
    /\ CycleReachable(files, variant_path) =>
        /\ pc # "returned"
        /\ error \notin {NameError, InvalidError}

(***************************************************************************)
(* What a mapping sets: its leaves, each a path of keys and the value that *)
(* is no mapping found there.                                              *)
(***************************************************************************)
RECURSIVE Leaves(_)
Leaves(d) ==
    UNION { IF d[k].t = "m"
            THEN { <<<<k>> \o l[1], l[2]>> : l \in Leaves(d[k].v) }
            ELSE { <<<<k>>, d[k]>> } : k \in DOMAIN d }

\* a leaf at path of a base mapping is still there after merging d on top
RECURSIVE Survives(_, _)
Survives(path, d) ==
    \/ Head(path) \notin DOMAIN d
    \/ /\ Len(path) > 1
       /\ d[Head(path)].t = "m"
       /\ Survives(Tail(path), d[Head(path)].v)

ArgFields == {"init_args", "call_args"}

ArgsOf(doc, field) == IF field = "init_args" THEN doc.init_args ELSE doc.call_args

\* C2 as amended: when the requested variant lists two parents, a setting
\* of init_args / call_args (a scalar or list at some path of keys) that
\* the first-listed parent sets and the requested variant does not resolves
\* to the first-listed parent's value, also when the second-listed parent
\* sets it too; a setting of the requested variant itself overrides both.
C2_FirstListedParentWins ==
    (pc = "returned" /\ Len(requested.parent_variants) = 2) =>
        LET A == files[requested.parent_variants[1]]
        IN  \A field \in ArgFields :
                LET own == ArgsOf(requested, field)
                    got == Leaves(ArgsOf(result, field))
                IN  /\ \A l \in Leaves(ArgsOf(A, field)) :
                          Survives(l[1], own) => l \in got
                    /\ Leaves(own) \subseteq got

\* C unset, A sets x, B sets x: the resolved x is A's
C2_Witness ==
    /\ pc = "returned"
    /\ Len(requested.parent_variants) = 2
    /\ "x" \notin DOMAIN requested.init_args
    /\ "x" \in DOMAIN files[requested.parent_variants[1]].init_args
    /\ "x" \in DOMAIN files[requested.parent_variants[2]].init_args
    /\ files[requested.parent_variants[1]].init_args["x"].t = "s"
    /\ files[requested.parent_variants[2]].init_args["x"].t = "s"
    /\ result.init_args["x"] = files[requested.parent_variants[1]].init_args["x"]

\* C2 as claimed: a setting the requested variant leaves unset and both
\* parents set resolves to the later-listed parent's value; a setting of
\* the requested variant itself overrides both.
C2_Original ==
    (pc = "returned" /\ Len(requested.parent_variants) = 2) =>
        LET A == files[requested.parent_variants[1]]
            B == files[requested.parent_variants[2]]
        IN  \A field \in ArgFields :
                LET own == ArgsOf(requested, field)
                    got == Leaves(ArgsOf(result, field))
                IN  /\ \A l \in Leaves(ArgsOf(B, field)) :
                          (/\ Survives(l[1], own)
                           /\ \E m \in Leaves(ArgsOf(A, field)) : m[1] = l[1])
                             => l \in got
                    /\ Leaves(own) \subseteq got

\* the requested variant inherits along one chain: at most one parent per
\* variant on the way up
SingleChain ==
    /\ Len(requested.parent_variants) = 1
    /\ Len(files[requested.parent_variants[1]].parent_variants) <= 1

parent == files[requested.parent_variants[1]]

HasGrandparent == Len(parent.parent_variants) = 1

grandparent == files[parent.parent_variants[1]]

\* C3: the resolved variant carries the requested variant's own name, never
\* null; every scalar or list the requested variant sets in init_args /
\* call_args, and its output_container when set, is in the result
\* unchanged.  Along a chain child > parent > grandparent a value comes
\* from the nearest variant that sets it: the parent's where the child
\* leaves it unset, the grandparent's where both do.
C3_CloserToRequestedWins ==
    pc = "returned" =>
        /\ result.name = requested.name
        /\ result.name # None
        /\ requested.output_container # None
             => result.output_container = requested.output_container
        /\ \A field \in ArgFields :
              Leaves(ArgsOf(requested, field)) \subseteq Leaves(ArgsOf(result, field))
        /\ SingleChain =>
              /\ requested.output_container = None
                   => result.output_container =
                        IF parent.output_container # None \/ ~HasGrandparent
                        THEN parent.output_container
                        ELSE grandparent.output_container
              /\ \A field \in ArgFields :
                    /\ \A l \in Leaves(ArgsOf(parent, field)) :
                          Survives(l[1], ArgsOf(requested, field))
                             => l \in Leaves(ArgsOf(result, field))
                    /\ HasGrandparent =>
                          \A l \in Leaves(ArgsOf(grandparent, field)) :
                             (/\ Survives(l[1], ArgsOf(parent, field))
                              /\ Survives(l[1], ArgsOf(requested, field)))
                                => l \in Leaves(ArgsOf(result, field))

\* child, parent and grandparent all named and all setting x: the child's
\* name and x are the result's, the grandparent's output_container and y
\* are inherited
C3_Witness ==
    /\ pc = "returned"
    /\ SingleChain
    /\ HasGrandparent
    /\ parent.name # None
    /\ grandparent.name # None
    /\ "x" \in DOMAIN requested.init_args
    /\ "x" \in DOMAIN parent.init_args
    /\ "x" \in DOMAIN grandparent.init_args
    /\ requested.output_container = None
    /\ parent.output_container = None
    /\ result.output_container = grandparent.output_container
    /\ result.output_container # None
    /\ result.name = variant_path

\* the evaluators a variant file declares itself
OwnEvaluators(doc) == EvaluationConfig(doc.evaluation).evaluators

\* the evaluator settings the variants of the inheritance chain set
ChainSettings ==
    UNION { Leaves(OwnEvaluators(files[f])) : f \in Reach(files, variant_path) }

\* C4: with experiment_evaluators supplied, an evaluator setting that the
\* requested variant or one of its ancestors sets is resolved to a value
\* set by one of them, and the experiment default is used only for the
\* settings none of them sets.
C4_ExperimentDefaultsLowest ==
    (pc = "returned" /\ ~exp_evaluators.isNone) =>
        LET got == Leaves(result.evaluation.evaluators)
        IN  /\ \A l \in ChainSettings :
                  \E r \in got : r[1] = l[1] /\ r \in ChainSettings
            /\ \A l \in Leaves(exp_evaluators.map) :
                  (\A c \in ChainSettings : c[1] # l[1]) => l \in got

\* C9: the resolved evaluators map has every evaluator name of
\* experiment_evaluators, when supplied, and every evaluator name declared
\* by the requested variant or by any of its ancestors.
C9_EvaluatorKeysKept ==
    pc = "returned" =>
        /\ ~exp_evaluators.isNone =>
              DOMAIN exp_evaluators.map \subseteq
                  DOMAIN result.evaluation.evaluators
        /\ \A f \in Reach(files, variant_path) :
              DOMAIN OwnEvaluators(files[f]) \subseteq
                  DOMAIN result.evaluation.evaluators

\* a request without an evaluation block, whose parent alone declares g,
\* resolved with the experiment's e and h
C9_Witness ==
    /\ pc = "returned"
    /\ ~exp_evaluators.isNone
    /\ requested.evaluation = EmptyDict
    /\ \E f \in ParentsOf(files, variant_path) :
          "g" \in DOMAIN OwnEvaluators(files[f])
    /\ {"e", "g", "h"} \subseteq DOMAIN result.evaluation.evaluators

(***************************************************************************)
(* Properties of merge_variant_configs, checked under SpecMerge.           *)
(***************************************************************************)
\* r is the deep merge of base and override: every key of either; a key of
\* one side keeps its value; a key of both is merged recursively when both
\* values are mappings and is the override's value otherwise
RECURSIVE IsDeepMerge(_, _, _)
IsDeepMerge(r, base, override) ==
    /\ DOMAIN r = (DOMAIN base) \cup (DOMAIN override)
    /\ \A k \in DOMAIN r :
          IF k \in DOMAIN base /\ k \in DOMAIN override
          THEN IF base[k].t = "m" /\ override[k].t = "m"
               THEN r[k].t = "m" /\ IsDeepMerge(r[k].v, base[k].v, override[k].v)
               ELSE r[k] = override[k]
          ELSE IF k \in DOMAIN override
               THEN r[k] = override[k]
               ELSE r[k] = base[k]

\* C5: merge_variant_configs(base, override) takes name and
\* output_container from override when set and else from base,
\* parent_variants from override when non-empty and else from base (never
\* both lists joined), and init_args / call_args as the deep merge of the
\* two mappings with override's scalars and lists replacing base's.
C5_OverrideWinsFieldByField ==
    mpc = "done" =>
        /\ merged.name = IF vc2.name # None THEN vc2.name ELSE vc1.name
        /\ merged.output_container =
              IF vc2.output_container # None
              THEN vc2.output_container ELSE vc1.output_container
        /\ merged.parent_variants =
              IF vc2.parent_variants # <<>>
              THEN vc2.parent_variants ELSE vc1.parent_variants
        /\ IsDeepMerge(merged.init_args, vc1.init_args, vc2.init_args)
        /\ IsDeepMerge(merged.call_args, vc1.call_args, vc2.call_args)

\* a nameless override with its own parent list and a list under x, merged
\* over a named base with another parent list and another list under x
C5_Witness ==
    /\ mpc = "done"
    /\ vc2.name = None
    /\ merged.name = vc1.name
    /\ vc1.name # None
    /\ vc1.parent_variants # <<>>
    /\ merged.parent_variants = vc2.parent_variants
    /\ vc2.parent_variants # vc1.parent_variants
    /\ "x" \in DOMAIN vc1.call_args
    /\ "x" \in DOMAIN vc2.call_args
    /\ merged.call_args["x"] = vc2.call_args["x"]
    /\ vc1.call_args["x"] # vc2.call_args["x"]
    /\ "x" \in DOMAIN vc1.init_args
    /\ "x" \in DOMAIN vc2.init_args
    /\ vc1.init_args["x"].t = "m"
    /\ vc2.init_args["x"].t = "m"

(***************************************************************************)
(* Properties of run_experiment and run_experiments, checked under         *)
(* SpecRun.                                                                *)
(***************************************************************************)
N == Len(data.lines)

\* what experiment.run returned for record k (from 1) of experiment x
OutputOf(x, k) == calls[(x - 1) * N + k].out

\* C6: experiment.run is invoked once per record, one record after the
\* other in file order, with the zero-based line index and that line's
\* record; the results so far, and the finished list of length N, hold the
\* value each invocation returned at the index of its record.
C6_OneResultPerRecordInOrder ==
    /\ \A k \in 1..Len(calls) :
          /\ calls[k].line_number = (k - 1) % N
          /\ calls[k].experiment = ((k - 1) \div N) + 1
          /\ calls[k].data_line = data.lines[calls[k].line_number + 1]
          /\ calls[k].out = Raised => (k = Len(calls) /\ rpc = Raised)
    /\ rpc = "records" =>
          /\ Len(results) = i
          /\ Len(calls) = (e - 1) * N + i
          /\ \A k \in 1..i : results[k] = OutputOf(e, k)
    /\ \A x \in 1..Len(all_results) :
          /\ Len(all_results[x]) = N
          /\ \A k \in 1..N : all_results[x][k] = OutputOf(x, k)

\* the same record twice in the file: run twice, two results kept in order
C6_Witness ==
    /\ Len(all_results) >= 1
    /\ N = 2
    /\ data.lines[1] = data.lines[2]
    /\ all_results[1] = <<"o2", "o1">>

WritesOf(x) == { k \in 1..Len(writes) : writes[k].experiment = x }

\* C7: write_results is called at most once per run_experiment, after the
\* last record, with the whole ordered result list, the given output_dir
\* and the is_eval_data flag; a finished run_experiment has called it if
\* and only if output_dir was given; when experiment.run raises, nothing is
\* written for that experiment and the failure ends the run.
C7_WriteOnceAfterAllRecords ==
    /\ \A k \in 1..Len(writes) :
          /\ args.output_dir # None
          /\ writes[k].output_dir = args.output_dir
          /\ writes[k].is_eval_data = args.is_eval_data
          /\ writes[k].calls_before = writes[k].experiment * N
          /\ Len(writes[k].results) = N
          /\ \A j \in 1..N :
                writes[k].results[j] = OutputOf(writes[k].experiment, j)
    /\ \A x \in 1..Len(experiments) : Cardinality(WritesOf(x)) <= 1
    /\ \A x \in 1..Len(all_results) :
          (WritesOf(x) # {}) <=> (args.output_dir # None)
    /\ (calls # <<>> /\ calls[Len(calls)].out = Raised) =>
          /\ rpc = Raised
          /\ WritesOf(calls[Len(calls)].experiment) = {}
          /\ ~ENABLED NextRun

\* both records of the only experiment ran, then the results were written
C7_Witness ==
    /\ rpc = "returned"
    /\ N = 2
    /\ Len(writes) = 1
    /\ writes[1].results = <<"o1", "o2">>
    /\ writes[1].is_eval_data

\* C8: the experiments run one at a time in the order loaded, each with its
\* write_results before the next one's first record; a failure ends the
\* batch: nothing more is invoked, nothing is returned, and what earlier
\* experiments wrote stays written; on success the returned results hold
\* one list per experiment, in order, and run_id is the supplied one, a
\* generated one only when none was supplied.
C8_SequentialFailFast ==
    /\ \A k \in 1..Len(calls) :
          /\ calls[k].experiment \in 1..Len(experiments)
          /\ k > 1 => calls[k - 1].experiment <= calls[k].experiment
    /\ \A k \in 1..Len(writes) :
          /\ writes[k].experiment = k
          /\ writes[k].calls_before = k * N
          /\ ~writes[k].written => (k = Len(writes) /\ rpc = Raised)
    /\ rpc # "returned" => returned = [results |-> <<>>, run_id |-> None]
    /\ rpc = Raised =>
          /\ ~ENABLED NextRun
          /\ args.output_dir # None =>
                \A x \in 1..Len(all_results) :
                    \E k \in WritesOf(x) : writes[k].written
    /\ rpc = "returned" =>
          /\ Len(returned.results) = Len(experiments)
          /\ \A x \in 1..Len(experiments) :
                /\ Len(returned.results[x]) = N
                /\ \A k \in 1..N : returned.results[x][k] = OutputOf(x, k)
          /\ returned.run_id =
                IF args.run_id # None THEN args.run_id ELSE "generated"

\* the second experiment fails on a record after the first one's results
\* were written
C8_Witness ==
    /\ rpc = Raised
    /\ Len(all_results) = 1
    /\ Len(writes) = 1
    /\ writes[1].written
    /\ calls # <<>>
    /\ calls[Len(calls)].experiment = 2
    /\ calls[Len(calls)].out = Raised
    /\ args.run_id # None

====
